---- MODULE Spec2Model ----
(***************************************************************************)
(* A model of the stategate transition engine (src/src/index.ts).          *)
(*                                                                         *)
(* One StateMachine drives caller-owned entities.  A call of               *)
(* transition(entity, nextState, context) is an async function: it runs    *)
(* synchronously up to its first await and is resumed by the settling of   *)
(* the promise it awaits.  Every action below is one such synchronous run. *)
(***************************************************************************)
EXTENDS Naturals, Sequences, FiniteSets, TLC

(***************************************************************************)
(* Bounds of the model.                                                    *)
(***************************************************************************)
MaxCalls == 2   \* transition calls made in one behaviour
MaxHooks == 2   \* length of globalHooks.beforeTransition / afterTransition

(***************************************************************************)
(* Names.                                                                  *)
(***************************************************************************)
StateNames == {"idle", "running", "completed"}
\* "archived" is a target no table has as a key; "toString" is a property
\* every object literal inherits from Object.prototype.
ProtoNames == {"toString"}
Targets == StateNames \cup {"archived"} \cup ProtoNames

NoMsg == "<none>"
NoCtx == [actor |-> "<none>", meta |-> "<none>"]
Contexts == {NoCtx, [actor |-> "alice", meta |-> "m1"]}

(***************************************************************************)
(* errors.ts                                                               *)
(***************************************************************************)
\* new AbortTransition({message}): super(params.message || "Aborting transition")
AbortTransition(msg) ==
  [type |-> "AbortTransition",
   message |-> IF msg = NoMsg \/ msg = "" THEN "Aborting transition" ELSE msg]

\* new InvalidTransition({message}): super(params.message || "Invalid transition")
InvalidTransition(msg) ==
  [type |-> "InvalidTransition",
   message |-> IF msg = NoMsg \/ msg = "" THEN "Invalid transition" ELSE msg]

\* new Error(message), as a hook may throw it, and as postTransition throws it
GenericError(msg) == [type |-> "Error", message |-> msg]

\* the TypeError of reading a property of undefined
TypeError == [type |-> "TypeError", message |-> "Cannot read properties of undefined"]

NoError == [type |-> "<none>", message |-> ""]

(***************************************************************************)
(* What a caller-supplied hook can do when it is run: fulfil, or fail with *)
(* the abort signal (with or without a message) or with any other error.   *)
(***************************************************************************)
HookOutcomes ==
  {NoError, AbortTransition(NoMsg), AbortTransition("Payment not received"),
   GenericError("boom")}
\* the global hooks: as above, one abort message being enough
GlobalHookOutcomes == HookOutcomes \ {AbortTransition(NoMsg)}
HookFailures == GlobalHookOutcomes \ {NoError}

\* A synchronous handler (onInvalidTransition, onAbort, onError) returns or throws.
HandlerOutcomes == {"returns", "throws"}
HandlerError == GenericError("handler failed")
\* AbortHandler returns void and its result is not awaited (line 121): an
\* async function passed as onAbort returns, at its first await, a promise
\* that settles in a later run.
AbortHandlerOutcomes == HandlerOutcomes \cup {"pending"}

(***************************************************************************)
(* types.ts: TransitionConfig, MachineConfig.  A hook or handler is        *)
(* modelled by whether it is configured; what it does is chosen when it    *)
(* runs.                                                                   *)
(***************************************************************************)
TransitionConfig(ab, ob, oa, of) ==
  [isAbortable |-> ab, onBefore |-> ob, onAbort |-> oa, onAfter |-> of]

\* What property access yields on undefined?.x, and on an inherited
\* function object such as Object.prototype.toString: nothing configured.
NoTransition == TransitionConfig(FALSE, FALSE, "none", FALSE)

\* transitions of the configurations the model is run with
TableA ==
  ("idle" :> ("running"   :> TransitionConfig(TRUE,  TRUE,  "none",   TRUE) @@
              "completed" :> TransitionConfig(FALSE, FALSE, "none",   FALSE))) @@
  ("running" :> ("completed" :> TransitionConfig(FALSE, TRUE,  "custom", TRUE) @@
                 "idle"      :> TransitionConfig(TRUE,  TRUE,  "custom", FALSE))) @@
  ("completed" :> ("archived" :> TransitionConfig(FALSE, FALSE, "none", TRUE)))

TableB ==
  ("idle" :> ("running" :> TransitionConfig(TRUE, FALSE, "custom", TRUE))) @@
  ("running" :> ("completed" :> TransitionConfig(FALSE, TRUE, "none", FALSE)))

Tables == {TableA, TableB}

\* globalHooks of the configurations the model is run with: none at all,
\* several before or after hooks with and without handlers, handlers alone
GlobalHooks(nb, na, inv, err) ==
  [beforeTransition |-> nb, afterTransition |-> na,
   onInvalidTransition |-> inv, onError |-> err]

GlobalHookConfigs ==
  {GlobalHooks(0, 0, FALSE, FALSE), GlobalHooks(MaxHooks, 1, TRUE, TRUE),
   GlobalHooks(1, MaxHooks, TRUE, FALSE), GlobalHooks(0, 1, FALSE, TRUE)}

NoKey == "<none>"
MachineConfig(table, hooks, key) ==
  [transitions |-> table, globalHooks |-> hooks, stateKey |-> key]

(***************************************************************************)
(* Property access on an object literal: own properties first, then the    *)
(* ones inherited from Object.prototype.                                   *)
(***************************************************************************)
\* `key in obj`
In(key, obj) == key \in DOMAIN obj \/ key \in ProtoNames

\* the own properties of an inherited function object that matter here: none
InheritedObject == [k \in {} |-> NoTransition]

\* obj[key] !== undefined
Defined(obj, key) == key \in DOMAIN obj \/ key \in ProtoNames

\* this.config.transitions[currentState], where it is defined
AllowedNextStates(transitions, currentState) ==
  IF currentState \in DOMAIN transitions THEN transitions[currentState]
  ELSE InheritedObject

\* allowedNextStates[nextState]; NoTransition stands for undefined and for
\* an inherited function, on both of which every hook property is undefined
NextTransition(allowedNextStates, nextState) ==
  IF nextState \in DOMAIN allowedNextStates THEN allowedNextStates[nextState]
  ELSE NoTransition

(***************************************************************************)
(* constructor                                                             *)
(***************************************************************************)
\* the default installed on every edge, whatever it declares
NormalizeEdgeAlways(edge) == [edge EXCEPT !.onAbort = "default"]

NormalizeEdge(edge) ==
  IF edge.isAbortable /\ edge.onAbort = "none"
  THEN [edge EXCEPT !.onAbort = "default"]
  ELSE edge

Constructor(cfg) ==
  [transitions |->
     [tK \in DOMAIN cfg.transitions |->
        [nS \in DOMAIN cfg.transitions[tK] |-> NormalizeEdge(cfg.transitions[tK][nS])]],
   globalHooks |-> cfg.globalHooks,
   stateKey |-> IF cfg.stateKey = NoKey THEN "status" ELSE cfg.stateKey]

(***************************************************************************)
(* State.                                                                  *)
(***************************************************************************)
VARIABLES
  config,    \* this.config, as the constructor left it
  entities,  \* the caller's entities: entity id -> field name -> value
  calls,     \* the transition calls: slot -> the call's locals and position
  ncalls     \* number of transition calls made so far

vars == <<config, entities, calls, ncalls>>

Fields == {"status", "phase", "paid"}

NoWrite == [field |-> "<none>", value |-> "<none>"]

\* the payload built with the actor in the place of meta
EventMetaIsActor(name, idx, from, to, message, context, error) ==
  [name |-> name, idx |-> idx, from |-> from, to |-> to, message |-> message,
   actor |-> context.actor, meta |-> context.actor, error |-> error]

\* an event a call produced: a hook or handler invoked or settled, the write
\* of the state field, a console.log line; with the payload it carried
Event(name, idx, from, to, message, context, error) ==
  [name |-> name, idx |-> idx, from |-> from, to |-> to, message |-> message,
   actor |-> context.actor, meta |-> context.meta, error |-> error]

FreeCall ==
  [pc |-> "free", entity |-> 0, currentState |-> "", nextState |-> "",
   context |-> NoCtx, nextTransition |-> NoTransition,
   entitySnapshot |-> [f \in Fields |-> ""], entityRef |-> "caller",
   phase |-> "", hooks |-> <<>>, rejection |-> NoError,
   error |-> NoError, result |-> "none", thrown |-> NoError, onAbort |-> "none",
   trace |-> <<>>]

\* error?.message ? error.message : fallback
PayloadMessage(error, fallback) ==
  IF error.message # "" THEN error.message ELSE fallback

(***************************************************************************)
(* Promise.all(hooks.map((fn) => fn(payload))): the hooks are invoked one  *)
(* after another in the same run.  A hook that throws synchronously ends   *)
(* the map: the later hooks are not invoked and the error is thrown.       *)
(* sync = 0: no hook throws synchronously; sync = k: hook k does.          *)
(***************************************************************************)
HookName(phase) == IF phase = "before" THEN "beforeTransition" ELSE "afterTransition"

\* with no hook registered nothing is awaited: the call is past the
\* post-phase fan-out at once
FanOutNothingToAwait(call, phase, n, sync, failure) ==
  LET invoked == IF sync = 0 THEN n ELSE sync
      starts == [i \in 1..invoked |->
                   Event(HookName(phase), i, call.currentState, call.nextState,
                         "", call.context, NoError)]
      thrown == IF sync = 0 THEN <<>>
                ELSE <<Event(HookName(phase) \o "Settled", sync, call.currentState,
                             call.nextState, "", call.context, failure)>>
      status == [i \in 1..n |->
                   IF sync = 0 \/ i < sync THEN "pending"
                   ELSE IF i = sync THEN "rejected" ELSE "notInvoked"]
  IN [call EXCEPT
        !.phase = IF n = 0 THEN "after" ELSE phase,
        !.hooks = status,
        !.rejection = IF sync = 0 THEN NoError ELSE failure,
        !.pc = IF phase = "before" /\ n > 0 THEN "beforeHooks" ELSE "afterHooks",
        !.trace = call.trace \o starts \o thrown]

\* the payload built with from and to exchanged
FanOutSwapped(call, phase, n, sync, failure) ==
  LET invoked == IF sync = 0 THEN n ELSE sync
      starts == [i \in 1..invoked |->
                   Event(HookName(phase), i, call.nextState, call.currentState,
                         "", call.context, NoError)]
      thrown == IF sync = 0 THEN <<>>
                ELSE <<Event(HookName(phase) \o "Settled", sync, call.currentState,
                             call.nextState, "", call.context, failure)>>
      status == [i \in 1..n |->
                   IF sync = 0 \/ i < sync THEN "pending"
                   ELSE IF i = sync THEN "rejected" ELSE "notInvoked"]
  IN [call EXCEPT
        !.phase = phase,
        !.hooks = status,
        !.rejection = IF sync = 0 THEN NoError ELSE failure,
        !.pc = IF phase = "before" THEN "beforeHooks" ELSE "afterHooks",
        !.trace = call.trace \o starts \o thrown]

\* only the first hook is invoked: the others wait for it
FanOutFirstOnly(call, phase, n, sync, failure) ==
  LET invoked == IF n = 0 THEN 0 ELSE 1
      starts == [i \in 1..invoked |->
                   Event(HookName(phase), i, call.currentState, call.nextState,
                         "", call.context, NoError)]
  IN [call EXCEPT
        !.phase = phase,
        !.hooks = [i \in 1..n |-> IF i = 1 THEN "pending" ELSE "notInvoked"],
        !.rejection = NoError,
        !.pc = IF phase = "before" THEN "beforeHooks" ELSE "afterHooks",
        !.trace = call.trace \o starts]

FanOut(call, phase, n, sync, failure) ==
  LET invoked == IF sync = 0 THEN n ELSE sync
      starts == [i \in 1..invoked |->
                   Event(HookName(phase), i, call.currentState, call.nextState,
                         "", call.context, NoError)]
      thrown == IF sync = 0 THEN <<>>
                ELSE <<Event(HookName(phase) \o "Settled", sync, call.currentState,
                             call.nextState, "", call.context, failure)>>
      status == [i \in 1..n |->
                   IF sync = 0 \/ i < sync THEN "pending"
                   ELSE IF i = sync THEN "rejected" ELSE "notInvoked"]
  IN [call EXCEPT
        !.phase = phase,
        !.hooks = status,
        !.rejection = IF sync = 0 THEN NoError ELSE failure,
        !.pc = IF phase = "before" THEN "beforeHooks" ELSE "afterHooks",
        !.trace = call.trace \o starts \o thrown]

FanOuts(call, phase) ==
  LET n == IF phase = "before" THEN config.globalHooks.beforeTransition
           ELSE config.globalHooks.afterTransition
  IN {FanOut(call, phase, n, sync, failure) : sync \in 0..n, failure \in HookFailures}

\* the promise awaited by `await Promise.all(...)` has settled
Rejected(call) == call.rejection # NoError
\* Promise.race in place of Promise.all: the first fulfilment is enough
FulfilledFirst(call) ==
  ~(call.rejection # NoError)
    /\ (call.hooks = <<>> \/ \E i \in DOMAIN call.hooks : call.hooks[i] = "fulfilled")

Fulfilled(call) ==
  ~Rejected(call) /\ \A i \in DOMAIN call.hooks : call.hooks[i] = "fulfilled"

Throw(call, error) == [call EXCEPT !.pc = "catch", !.error = error]

(***************************************************************************)
(* preTransition, up to its first await.                                   *)
(***************************************************************************)
PreTransition(call, allowedNextStates) ==
  IF ~In(call.nextState, allowedNextStates)
  THEN {Throw(call, InvalidTransition("Invalid Transaction"))}
  ELSE IF call.nextTransition.onBefore
  THEN {[call EXCEPT
           !.pc = "onBefore",
           !.trace = Append(call.trace,
                       Event("onBefore", 0, call.currentState, call.nextState,
                             "", NoCtx, NoError))]}
  ELSE FanOuts(call, "before")

\* the global afterTransition hooks fanned out only after an onAfter
PostTransitionAfterOnAfter(call, status) ==
  IF status # call.nextState
  THEN {Throw(call, GenericError("Transition failed or had incongurencies"))}
  ELSE IF call.nextTransition.onAfter
  THEN {[call EXCEPT
           !.pc = "onAfter",
           !.trace = Append(call.trace,
                       Event("onAfter", 0, call.currentState, call.nextState,
                             "", NoCtx, NoError))]}
  ELSE {[call EXCEPT !.phase = "after", !.hooks = <<>>, !.rejection = NoError,
                     !.pc = "afterHooks"]}

(***************************************************************************)
(* postTransition, up to its first await; status is entity[stateKey].      *)
(***************************************************************************)
PostTransition(call, status) ==
  IF status # call.nextState
  THEN {Throw(call, GenericError("Transition failed or had incongurencies"))}
  ELSE IF call.nextTransition.onAfter
  THEN {[call EXCEPT
           !.pc = "onAfter",
           !.trace = Append(call.trace,
                       Event("onAfter", 0, call.currentState, call.nextState,
                             "", NoCtx, NoError))]}
  ELSE FanOuts(call, "after")

(***************************************************************************)
(* transition(entity, nextState, context), up to its first await.  The     *)
(* lookups of lines 75-77 are outside the try block: when                  *)
(* transitions[currentState] is undefined, line 77 throws and the promise  *)
(* of the call rejects.                                                    *)
(***************************************************************************)
Call(c, e, nextState, context) ==
  /\ ncalls < MaxCalls
  /\ calls[c].pc \in {"free", "done"}
  /\ ncalls' = ncalls + 1
  /\ LET stateKey == config.stateKey
         currentState == entities[e][stateKey]
         started == [FreeCall EXCEPT
                       !.entity = e, !.currentState = currentState,
                       !.nextState = nextState, !.context = context,
                       !.result = "pending"]
     IN IF ~Defined(config.transitions, currentState)
        THEN calls' = [calls EXCEPT ![c] =
                         [started EXCEPT !.pc = "done", !.result = "rejected",
                                         !.thrown = TypeError]]
        ELSE LET allowedNextStates == AllowedNextStates(config.transitions, currentState)
                 call == [started EXCEPT
                            !.nextTransition = NextTransition(allowedNextStates, nextState),
                            !.entitySnapshot = entities[e]]
             IN \E next \in PreTransition(call, allowedNextStates) :
                  calls' = [calls EXCEPT ![c] = next]
  /\ UNCHANGED <<config, entities>>

\* the field name written is always "status"
WriteStateStatus(ents, e, stateKey, nextState) ==
  [ents EXCEPT ![e]["status"] = nextState]

\* one state shared by all the entities
WriteStateAll(ents, e, stateKey, nextState) ==
  [x \in DOMAIN ents |-> [ents[x] EXCEPT ![stateKey] = nextState]]

\* the commit dropped when the field no longer holds the state the call read
WriteStateIfUnchanged(ents, e, stateKey, nextState) ==
  IF \E c \in DOMAIN calls :
       /\ calls[c].entity = e /\ calls[c].pc = "beforeHooks"
       /\ calls[c].nextState = nextState
       /\ calls[c].currentState = ents[e][stateKey]
  THEN [ents EXCEPT ![e][stateKey] = nextState]
  ELSE ents

\* a commit that is lost
WriteStateLost(ents, e, stateKey, nextState) == ents

\* the two operands of the assignment exchanged
WriteStateSwapped(ents, e, stateKey, nextState) ==
  [ents EXCEPT ![e][stateKey] = stateKey]

\* entity[stateKey] = nextState (line 89)
WriteState(ents, e, stateKey, nextState) ==
  [ents EXCEPT ![e][stateKey] = nextState]

ApplyWrite(ents, e, write) ==
  IF write = NoWrite THEN ents
  ELSE [ents EXCEPT ![e][write.field] = write.value]

\* the promise returned by onBefore settles (line 54); on fulfilment
\* preTransition goes on to fan out the global hooks (lines 56-66)
OnBeforeSettles(c, outcome, write) ==
  /\ calls[c].pc = "onBefore"
  /\ entities' = ApplyWrite(entities, calls[c].entity, write)
  /\ LET call == [calls[c] EXCEPT
                    !.trace = Append(@, Event("onBeforeSettled", 0, calls[c].currentState,
                                              calls[c].nextState, "", NoCtx, outcome))]
     IN IF outcome = NoError
        THEN \E next \in FanOuts(call, "before") : calls' = [calls EXCEPT ![c] = next]
        ELSE calls' = [calls EXCEPT ![c] = Throw(call, outcome)]
  /\ UNCHANGED <<config, ncalls>>

\* the promise returned by global hook i settles; the first rejection
\* rejects the Promise.all promise
HookSettles(c, i, outcome) ==
  /\ i \in DOMAIN calls[c].hooks
  /\ calls[c].hooks[i] = "pending"
  /\ calls' = [calls EXCEPT ![c] =
       [@ EXCEPT
          !.hooks[i] = IF outcome = NoError THEN "fulfilled" ELSE "rejected",
          !.rejection = IF @ = NoError THEN outcome ELSE @,
          !.trace = Append(@, Event(HookName(calls[c].phase) \o "Settled", i,
                                    calls[c].currentState, calls[c].nextState,
                                    "", calls[c].context, outcome))]]
  /\ UNCHANGED <<config, entities, ncalls>>

\* the state field written before preTransition was awaited
BeforeRejectedAfterWrite(c) ==
  /\ calls[c].pc = "beforeHooks"
  /\ Rejected(calls[c])
  /\ calls' = [calls EXCEPT ![c] = Throw(@, calls[c].rejection)]
  /\ entities' = WriteState(entities, calls[c].entity, config.stateKey, calls[c].nextState)
  /\ UNCHANGED <<config, ncalls>>

\* `await Promise.all(...)` of preTransition rejected: control reaches catch
BeforeRejected(c) ==
  /\ calls[c].pc = "beforeHooks"
  /\ Rejected(calls[c])
  /\ calls' = [calls EXCEPT ![c] = Throw(@, calls[c].rejection)]
  /\ UNCHANGED <<config, entities, ncalls>>

\* preTransition fulfilled: line 89 writes the state field and
\* postTransition runs up to its first await
Commit(c) ==
  /\ calls[c].pc = "beforeHooks"
  /\ Fulfilled(calls[c])
  /\ LET e == calls[c].entity
         call == [calls[c] EXCEPT
                    !.trace = Append(@, Event("write", 0, calls[c].currentState,
                                              calls[c].nextState, "", NoCtx, NoError))]
     IN /\ entities' = WriteState(entities, e, config.stateKey, calls[c].nextState)
        /\ \E next \in PostTransition(call, entities'[e][config.stateKey]) :
             calls' = [calls EXCEPT ![c] = next]
  /\ UNCHANGED <<config, ncalls>>

\* the promise returned by onAfter settles (line 154)
OnAfterSettles(c, outcome, write) ==
  /\ calls[c].pc = "onAfter"
  /\ entities' = ApplyWrite(entities, calls[c].entity, write)
  /\ LET call == [calls[c] EXCEPT
                    !.trace = Append(@, Event("onAfterSettled", 0, calls[c].currentState,
                                              calls[c].nextState, "", NoCtx, outcome))]
     IN IF outcome = NoError
        THEN \E next \in FanOuts(call, "after") : calls' = [calls EXCEPT ![c] = next]
        ELSE calls' = [calls EXCEPT ![c] = Throw(call, outcome)]
  /\ UNCHANGED <<config, ncalls>>

AfterRejected(c) ==
  /\ calls[c].pc = "afterHooks"
  /\ Rejected(calls[c])
  /\ calls' = [calls EXCEPT ![c] = Throw(@, calls[c].rejection)]
  /\ UNCHANGED <<config, entities, ncalls>>

\* postTransition fulfilled: the try block ends and the call's promise resolves
Return(c) ==
  /\ calls[c].pc = "afterHooks"
  /\ Fulfilled(calls[c])
  /\ calls' = [calls EXCEPT ![c] = [@ EXCEPT !.pc = "done", !.result = "resolved"]]
  /\ UNCHANGED <<config, entities, ncalls>>

(***************************************************************************)
(* The catch block of transition (lines 98-138), one synchronous run.      *)
(* A handler that throws ends the block: the call's promise rejects.       *)
(* onInv, onAb, onErr: what each handler does if it is invoked.            *)
(***************************************************************************)
\* the abort signal honoured without looking at isAbortable
HonoredAbortAnyEdge(call) == call.error.type = "AbortTransition"

\* the abort signal honoured only for the entity driven first: the edges
\* of an engine constructed later have lost isAbortable
HonoredAbortFirstOnly(call) ==
  call.entity = 1 /\ call.nextTransition.isAbortable
    /\ call.error.type = "AbortTransition"

\* every error honoured as an abort on an abortable edge
HonoredAnyError(call) == call.nextTransition.isAbortable

HonoredAbort(call) ==
  call.nextTransition.isAbortable /\ call.error.type = "AbortTransition"

CatchBlock(call, onInv, onAb, onErr) ==
  LET error == call.error
      from == call.currentState
      to == call.nextState
      \* lines 100-111
      invalidCalled == error.type = "InvalidTransition"
                         /\ config.globalHooks.onInvalidTransition
      t1 == IF invalidCalled
            THEN Append(call.trace,
                   Event("onInvalidTransition", 0, from, to,
                         PayloadMessage(error, "Invalid transition."), call.context, NoError))
            ELSE call.trace
      \* lines 112-127
      honored == HonoredAbort(call)
      onAbort == call.nextTransition.onAbort
      abortEvent == Event("onAbort", 0, from, to,
                          PayloadMessage(error, "Aborting transition."), call.context, NoError)
      t2 == IF honored
            THEN IF onAbort = "custom" THEN Append(t1, abortEvent)
                 ELSE IF onAbort = "default"
                 THEN t1 \o <<abortEvent,
                               Event("console.log", 0, from, to, "Aborting transition from",
                                     NoCtx, NoError)>>
                 ELSE t1
            ELSE Append(t1, Event("console.log", 0, from, to,
                                  "Abort Transition triggered but skipped over transition",
                                  NoCtx, error))
      ref == IF honored THEN "clone" ELSE call.entityRef
      \* lines 128-137
      errorCalled == config.globalHooks.onError
      t3 == IF errorCalled
            THEN Append(t2, Event("onError", 0, from, to,
                                  PayloadMessage(error, "Aborting transition."),
                                  call.context, error))
            ELSE t2
      \* the promise an asynchronous onAbort returned is dropped
      running == IF honored /\ onAbort = "custom" /\ onAb = "pending"
                 THEN "pending" ELSE "none"
      rejects(trace, r) ==
        [call EXCEPT !.pc = "done", !.result = "rejected", !.thrown = HandlerError,
                     !.trace = trace, !.entityRef = r, !.onAbort = running]
  IN IF invalidCalled /\ onInv = "throws" THEN rejects(t1, call.entityRef)
     ELSE IF honored /\ onAbort = "custom" /\ onAb = "throws" THEN rejects(t2, ref)
     ELSE IF errorCalled /\ onErr = "throws" THEN rejects(t3, ref)
     ELSE [call EXCEPT !.pc = "done", !.result = "resolved", !.trace = t3,
                       !.entityRef = ref, !.onAbort = running]

Catch(c, onInv, onAb, onErr) ==
  /\ calls[c].pc = "catch"
  /\ calls' = [calls EXCEPT ![c] = CatchBlock(calls[c], onInv, onAb, onErr)]
  /\ UNCHANGED <<config, entities, ncalls>>

\* the promise of an asynchronous onAbort settles; nothing awaits it, a
\* rejection is an unhandled rejection
OnAbortSettles(c, outcome) ==
  /\ calls[c].onAbort = "pending"
  /\ calls' = [calls EXCEPT ![c] =
       [@ EXCEPT
          !.onAbort = "settled",
          !.trace = Append(@, Event("onAbortSettled", 0, calls[c].currentState,
                                    calls[c].nextState, "", calls[c].context, outcome))]]
  /\ UNCHANGED <<config, entities, ncalls>>

(***************************************************************************)
(* Specifications.                                                         *)
(***************************************************************************)
NewEntity(state) ==
  [f \in Fields |-> IF f \in {"status", "phase"} THEN state ELSE "yes"]

InitWith(tables, hookConfigs, stateKeys, slots, ids) ==
  /\ \E table \in tables, hooks \in hookConfigs, key \in stateKeys :
       /\ config = Constructor(MachineConfig(table, hooks, key))
       /\ entities \in [ids -> {NewEntity(s) : s \in DOMAIN table}]
  /\ calls = [c \in slots |-> FreeCall]
  /\ ncalls = 0

\* what onBefore and onAfter, which are handed the entity, may write to it
DataWrites == {NoWrite, [field |-> "paid", value |-> "no"]}

\* One entity, one call at a time; hooks leave the state field alone.
Init == InitWith(Tables, GlobalHookConfigs, {NoKey}, {1}, {1})

Transition ==
  \E c \in DOMAIN calls, e \in DOMAIN entities, nextState \in Targets,
     context \in Contexts :
    Call(c, e, nextState, context)

OnBefore ==
  \E c \in DOMAIN calls, outcome \in HookOutcomes, write \in DataWrites :
    OnBeforeSettles(c, outcome, write)

OnAfter ==
  \E c \in DOMAIN calls, outcome \in HookOutcomes, write \in DataWrites :
    OnAfterSettles(c, outcome, write)

GlobalHook ==
  \E c \in DOMAIN calls, i \in 1..MaxHooks, outcome \in GlobalHookOutcomes :
    HookSettles(c, i, outcome)

PreTransitionRejected == \E c \in DOMAIN calls : BeforeRejected(c)
PreTransitionFulfilled == \E c \in DOMAIN calls : Commit(c)
PostTransitionRejected == \E c \in DOMAIN calls : AfterRejected(c)
PostTransitionFulfilled == \E c \in DOMAIN calls : Return(c)

Caught ==
  \E c \in DOMAIN calls, onInv \in HandlerOutcomes, onAb \in AbortHandlerOutcomes,
     onErr \in HandlerOutcomes :
    Catch(c, onInv, onAb, onErr)

OnAbort ==
  \E c \in DOMAIN calls, outcome \in {NoError, HandlerError} :
    OnAbortSettles(c, outcome)

Next ==
  \/ Transition
  \/ OnBefore
  \/ GlobalHook
  \/ PreTransitionRejected
  \/ PreTransitionFulfilled
  \/ OnAfter
  \/ PostTransitionRejected
  \/ PostTransitionFulfilled
  \/ Caught
  \/ OnAbort

Spec == Init /\ [][Next]_vars

\* every promise a call waits for settles, and the event loop runs every
\* continuation that is ready; whether a call is made at all is up to the caller
FairSpec ==
  /\ Spec
  /\ WF_vars(OnBefore) /\ WF_vars(GlobalHook)
  /\ WF_vars(PreTransitionRejected) /\ WF_vars(PreTransitionFulfilled)
  /\ WF_vars(OnAfter)
  /\ WF_vars(PostTransitionRejected) /\ WF_vars(PostTransitionFulfilled)
  /\ WF_vars(Caught) /\ WF_vars(OnAbort)

(***************************************************************************)
(* Two entities, one transition call on each, in flight at the same time:  *)
(* call c is transition(entity c, nextState, ContextOf(c)).                *)
(***************************************************************************)
ContextOf(c) == [actor |-> "alice", meta |-> IF c = 1 THEN "m1" ELSE "m2"]

InitPar ==
  InitWith({TableB}, {GlobalHooks(1, 1, TRUE, TRUE)}, {NoKey}, {1, 2}, {1, 2})

TransitionPar ==
  \E c \in DOMAIN calls, nextState \in StateNames :
    calls[c].pc = "free" /\ Call(c, c, nextState, ContextOf(c))

NextPar ==
  \/ TransitionPar
  \/ OnBefore
  \/ GlobalHook
  \/ PreTransitionRejected
  \/ PreTransitionFulfilled
  \/ OnAfter
  \/ PostTransitionRejected
  \/ PostTransitionFulfilled
  \/ Caught
  \/ OnAbort

SpecPar == InitPar /\ [][NextPar]_vars

(***************************************************************************)
(* Two engines constructed from one configuration, each driven with one    *)
(* transition call on an entity of its own: call c is made through engine  *)
(* c on entity c.  The second constructor is handed the configuration      *)
(* object the first one normalized in place, so both engines hold `config` *)
(* provided the constructor is idempotent.                                 *)
(***************************************************************************)
TransitionTwin ==
  \E c \in DOMAIN calls, nextState \in StateNames :
    calls[c].pc = "free" /\ Call(c, c, nextState, ContextOf(1))

NextTwin ==
  \/ TransitionTwin
  \/ OnBefore
  \/ GlobalHook
  \/ PreTransitionRejected
  \/ PreTransitionFulfilled
  \/ OnAfter
  \/ PostTransitionRejected
  \/ PostTransitionFulfilled
  \/ Caught
  \/ OnAbort

SpecTwin == InitPar /\ [][NextTwin]_vars

(***************************************************************************)
(* One entity and two transition calls on it that may be in flight at the  *)
(* same time: nothing in transition keeps a second call on the same entity *)
(* from starting while the first is suspended at an await.                 *)
(***************************************************************************)
InitRace ==
  InitWith({TableA}, {GlobalHooks(0, 0, FALSE, FALSE), GlobalHooks(1, 1, TRUE, TRUE)},
           {NoKey}, {1, 2}, {1})

TransitionRace ==
  \E c \in DOMAIN calls, nextState \in StateNames :
    calls[c].pc = "free" /\ Call(c, 1, nextState, ContextOf(c))

NextRace ==
  \/ TransitionRace
  \/ OnBefore
  \/ GlobalHook
  \/ PreTransitionRejected
  \/ PreTransitionFulfilled
  \/ OnAfter
  \/ PostTransitionRejected
  \/ PostTransitionFulfilled
  \/ Caught
  \/ OnAbort

SpecRace == InitRace /\ [][NextRace]_vars

(***************************************************************************)
(* One entity and a sequence of transition calls on it, each made when the *)
(* one before has completed; call c keeps slot c, so the hook invocations  *)
(* of the whole sequence stay on record.                                   *)
(***************************************************************************)
InitSeq ==
  InitWith({TableA}, {GlobalHooks(1, 1, TRUE, TRUE)}, {NoKey}, 1..MaxCalls, {1})

TransitionSeq ==
  \E c \in DOMAIN calls, nextState \in StateNames :
    /\ c = ncalls + 1
    /\ \A b \in 1..(c - 1) : calls[b].pc = "done"
    /\ Call(c, 1, nextState, ContextOf(c))

NextSeq ==
  \/ TransitionSeq
  \/ OnBefore
  \/ GlobalHook
  \/ PreTransitionRejected
  \/ PreTransitionFulfilled
  \/ OnAfter
  \/ PostTransitionRejected
  \/ PostTransitionFulfilled
  \/ Caught
  \/ OnAbort

SpecSeq == InitSeq /\ [][NextSeq]_vars

(***************************************************************************)
(* An engine with stateKey omitted or set to "phase", and an entity whose  *)
(* fields status and phase hold states of the table independently.         *)
(***************************************************************************)
InitKey ==
  /\ \E key \in {NoKey, "phase"} :
       config = Constructor(MachineConfig(TableA, GlobalHooks(1, 1, TRUE, TRUE), key))
  /\ entities \in [{1} -> {[status |-> s, phase |-> p, paid |-> "yes"] :
                              s \in DOMAIN TableA, p \in DOMAIN TableA}]
  /\ calls = [c \in {1} |-> FreeCall]
  /\ ncalls = 0

SpecKey == InitKey /\ [][Next]_vars

(***************************************************************************)
(* Vocabulary of the properties.                                           *)
(***************************************************************************)
StateField(c) == entities[calls[c].entity][config.stateKey]

\* S -> T is an edge the transition table declares
DeclaredEdge(call) ==
  /\ call.currentState \in DOMAIN config.transitions
  /\ call.nextState \in DOMAIN config.transitions[call.currentState]

Positions(trace, names) == {i \in 1..Len(trace) : trace[i].name \in names}
Count(trace, name) == Cardinality(Positions(trace, {name}))
Invoked(trace, name) == Positions(trace, {name}) # {}

BeforeSettled == {"onBeforeSettled", "beforeTransitionSettled"}
AfterSettled == {"onAfterSettled", "afterTransitionSettled"}

\* a hook among `names` failed, with an error of one of `types`
Failure(trace, names, types) ==
  \E i \in Positions(trace, names) : trace[i].error.type \in types

AnyError == {"AbortTransition", "Error"}

\* between positions i and j the hook started at i settled
SettledBetween(trace, i, j, name) ==
  \E k \in Positions(trace, {name}) : i < k /\ k < j /\ trace[k].idx = trace[i].idx

Finished(c) == calls[c].pc = "done"

(***************************************************************************)
(* C1 (as stated): for every entity in state S and every declared edge     *)
(* S -> T where no hook raises the abort signal, after transition(e, T)    *)
(* completes the state field equals T.                                     *)
(***************************************************************************)
C1_TargetUnlessAbortSignal ==
  \A c \in DOMAIN calls :
    (/\ Finished(c)
     /\ DeclaredEdge(calls[c])
     /\ ~Failure(calls[c].trace, BeforeSettled \cup AfterSettled, {"AbortTransition"}))
    => StateField(c) = calls[c].nextState

(***************************************************************************)
(* C1 (amended): for every entity in state S and every declared edge       *)
(* S -> T where neither onBefore nor a global beforeTransition hook fails, *)
(* with the abort signal or with any other error, after transition(e, T)   *)
(* completes the state field equals T, whatever onAfter and the global     *)
(* afterTransition hooks do.                                               *)
(***************************************************************************)
C1_TargetUnlessBeforePhaseFails ==
  \A c \in DOMAIN calls :
    (/\ Finished(c)
     /\ DeclaredEdge(calls[c])
     /\ ~Failure(calls[c].trace, BeforeSettled, AnyError))
    => StateField(c) = calls[c].nextState

C1_Witness ==
  \E c \in DOMAIN calls :
    /\ Finished(c)
    /\ DeclaredEdge(calls[c])
    /\ calls[c].currentState # calls[c].nextState
    /\ Invoked(calls[c].trace, "onBeforeSettled")
    /\ Invoked(calls[c].trace, "beforeTransitionSettled")
    /\ ~Failure(calls[c].trace, BeforeSettled, AnyError)
    /\ Failure(calls[c].trace, AfterSettled, {"AbortTransition"})
    /\ StateField(c) = calls[c].nextState

(***************************************************************************)
(* C2: in a transition call that has not failed, onBefore settles before   *)
(* any global beforeTransition hook starts; every global beforeTransition  *)
(* hook settles before the state field is written; the state field is      *)
(* written before onAfter starts; onAfter settles before any global        *)
(* afterTransition hook starts.                                            *)
(***************************************************************************)
C2_StepOrder ==
  \A c \in DOMAIN calls :
    LET tr == calls[c].trace
        P(name) == Positions(tr, {name})
    IN calls[c].error = NoError =>
         /\ \A i \in P("onBefore") :
              \A j \in P("beforeTransition") \cup P("write") :
                i < j /\ SettledBetween(tr, i, j, "onBeforeSettled")
         /\ \A i \in P("beforeTransition"), j \in P("write") :
              i < j /\ SettledBetween(tr, i, j, "beforeTransitionSettled")
         /\ \A i \in P("write") :
              \A j \in P("onAfter") \cup P("afterTransition") : i < j
         /\ \A i \in P("onAfter"), j \in P("afterTransition") :
              i < j /\ SettledBetween(tr, i, j, "onAfterSettled")
         /\ Finished(c) /\ calls[c].result = "resolved" => Count(tr, "write") = 1

C2_Witness ==
  \E c \in DOMAIN calls :
    /\ Finished(c)
    /\ calls[c].result = "resolved"
    /\ calls[c].error = NoError
    /\ Count(calls[c].trace, "onBefore") = 1
    /\ Count(calls[c].trace, "beforeTransition") = MaxHooks
    /\ Count(calls[c].trace, "write") = 1
    /\ Count(calls[c].trace, "onAfter") = 1
    /\ Count(calls[c].trace, "afterTransition") = 1

HookStarts == {"onBefore", "beforeTransition", "onAfter", "afterTransition"}

\* the events of `name` all carry from = S and to = T of the call
PayloadOfCall(call, name) ==
  \A i \in Positions(call.trace, {name}) :
    call.trace[i].from = call.currentState /\ call.trace[i].to = call.nextState

\* onBefore failed with the abort signal
OnBeforeAborted(call) == Failure(call.trace, {"onBeforeSettled"}, {"AbortTransition"})

\* onError was handed the error the call caught
ErrorReported(call) ==
  \E i \in Positions(call.trace, {"onError"}) : call.trace[i].error = call.error

(***************************************************************************)
(* C3: for every requested target T that is not a declared next state of   *)
(* the entity's current state, transition leaves the state field unchanged *)
(* and invokes none of onBefore, the global beforeTransition hooks,        *)
(* onAfter, the global afterTransition hooks.                              *)
(***************************************************************************)
C3_UndeclaredTargetNoEffect ==
  \A c \in DOMAIN calls :
    (calls[c].pc # "free" /\ ~DeclaredEdge(calls[c]))
    => /\ StateField(c) = calls[c].currentState
       /\ Positions(calls[c].trace, HookStarts) = {}

(***************************************************************************)
(* C4: every transition call whose target T is not a declared next state   *)
(* of the current state S invokes onInvalidTransition exactly once, with a *)
(* payload whose from is S and whose to is T.                              *)
(***************************************************************************)
C4_UndeclaredTargetReportedOnce ==
  \A c \in DOMAIN calls :
    (/\ Finished(c)
     /\ ~DeclaredEdge(calls[c])
     /\ config.globalHooks.onInvalidTransition)
    => /\ Count(calls[c].trace, "onInvalidTransition") = 1
       /\ PayloadOfCall(calls[c], "onInvalidTransition")

(***************************************************************************)
(* C5: for an abortable edge S -> T whose onBefore raises the              *)
(* AbortTransition signal, the state field stays S, onAbort is invoked     *)
(* exactly once with from = S, to = T and the abort's message, onAfter and *)
(* the global afterTransition hooks are never invoked, and onError is      *)
(* invoked with that same error.                                           *)
(***************************************************************************)
C5_AbortableEdgeAbort ==
  \A c \in DOMAIN calls :
    (/\ Finished(c)
     /\ calls[c].nextTransition.isAbortable
     /\ OnBeforeAborted(calls[c])
     /\ config.globalHooks.onError)
    => /\ StateField(c) = calls[c].currentState
       /\ Count(calls[c].trace, "onAbort") = 1
       /\ PayloadOfCall(calls[c], "onAbort")
       /\ \A i \in Positions(calls[c].trace, {"onAbort"}) :
            calls[c].trace[i].message = calls[c].error.message
       /\ Positions(calls[c].trace, {"onAfter", "afterTransition"}) = {}
       /\ ErrorReported(calls[c])

(***************************************************************************)
(* C6: for a non-abortable edge whose onBefore raises the AbortTransition  *)
(* signal, onAbort is never invoked (also when one is configured), onError *)
(* is invoked (when configured, once, with that error), the state field is *)
(* not changed and no rollback is performed.                               *)
(***************************************************************************)
C6_NonAbortableEdgeAbort ==
  \A c \in DOMAIN calls :
    (/\ DeclaredEdge(calls[c])
     /\ ~calls[c].nextTransition.isAbortable
     /\ OnBeforeAborted(calls[c]))
    => /\ ~Invoked(calls[c].trace, "onAbort")
       /\ ~Invoked(calls[c].trace, "write")
       /\ StateField(c) = calls[c].currentState
       /\ calls[c].entityRef = "caller"
       /\ (Finished(c) /\ config.globalHooks.onError)
            => Count(calls[c].trace, "onError") = 1 /\ ErrorReported(calls[c])

C6_Witness ==
  \E c \in DOMAIN calls :
    /\ Finished(c)
    /\ DeclaredEdge(calls[c])
    /\ ~calls[c].nextTransition.isAbortable
    /\ calls[c].nextTransition.onAbort = "custom"
    /\ OnBeforeAborted(calls[c])
    /\ calls[c].error.type = "AbortTransition"
    /\ ErrorReported(calls[c])
    /\ ~Invoked(calls[c].trace, "onAbort")

(***************************************************************************)
(* C7: in every transition call onAbort is invoked if and only if the edge *)
(* is abortable and the before-phase raised the AbortTransition signal; it *)
(* is never invoked for a failure after the state field was written.       *)
(***************************************************************************)
C7_OnAbortOnlyBeforeCommit ==
  \A c \in DOMAIN calls :
    Finished(c) =>
      (Invoked(calls[c].trace, "onAbort")
         <=> /\ calls[c].nextTransition.isAbortable
             /\ calls[c].error.type = "AbortTransition"
             /\ ~Invoked(calls[c].trace, "write"))

(***************************************************************************)
(* C8: the promise returned by transition never rejects, for every entity, *)
(* every target and every behaviour of the hooks and handlers.             *)
(***************************************************************************)
C8_NeverRejects ==
  \A c \in DOMAIN calls : calls[c].result # "rejected"

(***************************************************************************)
(* C9: when onBefore, a global beforeTransition hook, onAfter or a global  *)
(* afterTransition hook fails, the current state being a key of the table, *)
(* the call still resolves and the error is delivered to onError.          *)
(***************************************************************************)
C9_HookFailureAbsorbed ==
  \A c \in DOMAIN calls :
    (/\ Finished(c)
     /\ calls[c].currentState \in DOMAIN config.transitions
     /\ calls[c].error.type \in AnyError
     /\ config.globalHooks.onError)
    => calls[c].result = "resolved" /\ ErrorReported(calls[c])

(***************************************************************************)
(* C10: after a transition call on an entity in state S with target T has  *)
(* run to completion, the state field is S or T: S when validation or the  *)
(* before-phase failed, T when the state field was written.                *)
(***************************************************************************)
C10_SourceOrTarget ==
  \A c \in DOMAIN calls :
    Finished(c) =>
      /\ StateField(c) \in {calls[c].currentState, calls[c].nextState}
      /\ Invoked(calls[c].trace, "write") => StateField(c) = calls[c].nextState
      /\ ~Invoked(calls[c].trace, "write") => StateField(c) = calls[c].currentState
      /\ (\/ calls[c].error.type = "InvalidTransition"
          \/ Failure(calls[c].trace, BeforeSettled, AnyError))
           => ~Invoked(calls[c].trace, "write")

C10_Witness ==
  \E c \in DOMAIN calls :
    /\ Finished(c)
    /\ calls[c].currentState # calls[c].nextState
    /\ Invoked(calls[c].trace, "write")
    /\ calls[c].error.type = "Error"
    /\ StateField(c) = calls[c].nextState

(***************************************************************************)
(* C11 (as stated), for calls along the edges the table declares: starting *)
(* from an entity whose state field is a key of the transition table,      *)
(* after every completed transition call the state field is still a key of *)
(* the transition table, for every table the constructor accepts.          *)
(***************************************************************************)
TableKeys == DOMAIN config.transitions

C11_AlwaysKey ==
  \A c \in DOMAIN calls :
    Finished(c) /\ DeclaredEdge(calls[c]) => StateField(c) \in TableKeys

(***************************************************************************)
(* C11 (amended): a step of the engine takes the state field of an entity  *)
(* from a key of the transition table to a key of the transition table,    *)
(* provided the target of the call in progress is itself a key of the      *)
(* table; the commit of a target that is not a key (a dangling target the  *)
(* constructor accepted) leaves the field outside the keys.                *)
(***************************************************************************)
InProgress(c) == calls[c].pc \notin {"free", "done"}

C11_KeyUnlessTargetNotKey ==
  [][\A e \in DOMAIN entities :
       (/\ entities[e][config.stateKey] \in TableKeys
        /\ \A c \in DOMAIN calls :
             InProgress(c) /\ calls[c].entity = e => calls[c].nextState \in TableKeys)
       => entities'[e][config.stateKey] \in TableKeys]_vars

C11_Witness ==
  \E c \in DOMAIN calls :
    /\ Finished(c)
    /\ ncalls >= 2
    /\ calls[c].currentState # calls[c].nextState
    /\ calls[c].nextState \in TableKeys
    /\ Invoked(calls[c].trace, "write")
    /\ StateField(c) = calls[c].nextState

(***************************************************************************)
(* C12: when onAfter or a global afterTransition hook fails on a declared  *)
(* edge S -> T, the state field remains T after the call, onError (when    *)
(* configured) is invoked once with a payload carrying from = S and        *)
(* to = T, and no rollback is attempted: the restore of line 113 is not    *)
(* executed and onAbort is not invoked.                                    *)
(***************************************************************************)
C12_AfterFailureNotUndone ==
  \A c \in DOMAIN calls :
    (/\ Finished(c)
     /\ DeclaredEdge(calls[c])
     /\ Failure(calls[c].trace, AfterSettled, AnyError))
    => /\ StateField(c) = calls[c].nextState
       /\ config.globalHooks.onError =>
            Count(calls[c].trace, "onError") = 1 /\ PayloadOfCall(calls[c], "onError")
       /\ calls[c].entityRef = "caller"
       /\ ~Invoked(calls[c].trace, "onAbort")

(***************************************************************************)
(* C13: when onBefore or a global beforeTransition hook fails with an      *)
(* error that is not the abort signal, on an abortable or a non-abortable  *)
(* edge, the state field is not written, onAbort is not invoked, no        *)
(* rollback is performed, onAfter and the global afterTransition hooks are *)
(* not invoked, and onError (when configured) is invoked with the error.   *)
(***************************************************************************)
\* the before-phase failed and the error that surfaced is not the abort signal
BeforePhaseError(c) ==
  /\ calls[c].pc \in {"catch", "done"}
  /\ calls[c].error.type = "Error"
  /\ Failure(calls[c].trace, BeforeSettled, {"Error"})

C13_BeforePhaseErrorOnlyReported ==
  \A c \in DOMAIN calls :
    BeforePhaseError(c) =>
      /\ ~Invoked(calls[c].trace, "write")
      /\ StateField(c) = calls[c].currentState
      /\ ~Invoked(calls[c].trace, "onAbort")
      /\ calls[c].entityRef = "caller"
      /\ ~Invoked(calls[c].trace, "onAfter")
      /\ ~Invoked(calls[c].trace, "afterTransition")
      /\ Finished(c) /\ config.globalHooks.onError =>
           Count(calls[c].trace, "onError") = 1 /\ ErrorReported(calls[c])

C13_Witness ==
  \E c \in DOMAIN calls :
    /\ Finished(c)
    /\ BeforePhaseError(c)
    /\ calls[c].nextTransition.isAbortable
    /\ calls[c].nextTransition.onAbort = "custom"
    /\ Failure(calls[c].trace, {"beforeTransitionSettled"}, {"Error"})
    /\ ErrorReported(calls[c])
    /\ StateField(c) = calls[c].currentState

(***************************************************************************)
(* C14: when onError is configured, every transition call that fails       *)
(* (invalid target, abort, or any other hook error) invokes onError        *)
(* exactly once, and every transition call that succeeds invokes it zero   *)
(* times.                                                                  *)
(***************************************************************************)
\* the call did not run to the end of postTransition
Failed(call) == call.error # NoError \/ call.result = "rejected"

C14_OnErrorOncePerFailure ==
  \A c \in DOMAIN calls :
    Finished(c) /\ config.globalHooks.onError =>
      Count(calls[c].trace, "onError") = (IF Failed(calls[c]) THEN 1 ELSE 0)

(***************************************************************************)
(* C15 (as stated): on every failed transition call the failure boundary   *)
(* dispatches exactly one of the two specific handlers (onInvalidTransition*)
(* or the edge's onAbort), never both and never neither.                   *)
(***************************************************************************)
SpecificHandlers(call) ==
  Count(call.trace, "onInvalidTransition") + Count(call.trace, "onAbort")

C16_OnErrorAfterSpecificHandler ==
  \A c \in DOMAIN calls :
    LET call == calls[c]
        P(name) == Positions(call.trace, {name})
    IN \A j \in P("onError") :
         /\ (call.error.type = "InvalidTransition"
               /\ config.globalHooks.onInvalidTransition)
              => \E i \in P("onInvalidTransition") : i < j
         /\ HonoredAbort(call) =>
              /\ \E i \in P("onAbort") : i < j
              /\ call.onAbort # "none" => \E k \in P("onAbortSettled") : k < j

(***************************************************************************)
(* C17 (as stated): with N global beforeTransition hooks registered, all N *)
(* hooks are started before any one of them completes.                     *)
(***************************************************************************)
C17_AllStartedBeforeAnyCompletes ==
  \A c \in DOMAIN calls :
    LET tr == calls[c].trace
    IN \A j \in Positions(tr, {"beforeTransitionSettled"}) :
         Cardinality({i \in Positions(tr, {"beforeTransition"}) : i < j})
           = config.globalHooks.beforeTransition

\* the fan-out of the hooks `name` ended at a hook that threw while it was
\* being called: its failure follows its start at once and it is the last
\* hook started
ThrewSynchronously(trace, name) ==
  \E i \in Positions(trace, {name}) :
    /\ trace[i].idx = Count(trace, name)
    /\ i < Len(trace)
    /\ trace[i + 1].name = name \o "Settled"
    /\ trace[i + 1].idx = trace[i].idx
    /\ trace[i + 1].error # NoError

\* every registered hook `name` was started, or every hook up to one that
\* threw while it was being called
StartedUpToThrow(trace, name, n) ==
  \/ Count(trace, name) = n
  \/ Count(trace, name) < n /\ ThrewSynchronously(trace, name)

(***************************************************************************)
(* C17 (amended): the start of a global beforeTransition hook never waits  *)
(* for another global hook to settle: every hook that is started is        *)
(* started before any of them settles, and with N hooks registered all N   *)
(* are started unless one of them throws synchronously when it is called,  *)
(* which ends the fan-out: the hooks registered after it are not started.  *)
(***************************************************************************)
C17_StartNeverWaits ==
  \A c \in DOMAIN calls :
    LET tr == calls[c].trace
    IN /\ \A i \in Positions(tr, {"beforeTransition"}) :
            \A j \in Positions(tr, {"beforeTransitionSettled"}) :
              i < j
       /\ Invoked(tr, "beforeTransition") =>
            StartedUpToThrow(tr, "beforeTransition", config.globalHooks.beforeTransition)

C17_Witness ==
  \E c \in DOMAIN calls :
    /\ calls[c].pc = "beforeHooks"
    /\ Count(calls[c].trace, "beforeTransition") = MaxHooks
    /\ \E i, j \in DOMAIN calls[c].hooks :
         calls[c].hooks[i] = "fulfilled" /\ calls[c].hooks[j] = "pending"

(***************************************************************************)
(* C18: after fanning out the global beforeTransition (or afterTransition) *)
(* hooks, the transition call takes no further step (commit, failure       *)
(* handling, onError, return) until every fanned-out hook has settled,     *)
(* whether the hooks fulfil or one of them rejects.                        *)
(***************************************************************************)
\* a hook the call started has not settled
HookPending(call) == \E i \in DOMAIN call.hooks : call.hooks[i] = "pending"

C18_WaitsForAllHooks ==
  \A c \in DOMAIN calls :
    HookPending(calls[c]) => calls[c].pc \in {"beforeHooks", "afterHooks"}

(***************************************************************************)
(* C19 (as stated): every transition attempt that passes validation (the   *)
(* target is a declared next state) invokes every global beforeTransition  *)
(* hook, and every transition call that commits the state field invokes    *)
(* every global afterTransition hook.                                      *)
(***************************************************************************)
C19_EveryHookInvoked ==
  \A c \in DOMAIN calls :
    Finished(c) =>
      /\ DeclaredEdge(calls[c]) =>
           Count(calls[c].trace, "beforeTransition") = config.globalHooks.beforeTransition
      /\ Invoked(calls[c].trace, "write") =>
           Count(calls[c].trace, "afterTransition") = config.globalHooks.afterTransition

(***************************************************************************)
(* C19 (amended): a transition attempt that passes validation and whose    *)
(* onBefore, if the edge has one, fulfils invokes the global               *)
(* beforeTransition hooks in order, all of them unless one throws          *)
(* synchronously, which leaves the hooks after it uninvoked; when onBefore *)
(* fails none of them is invoked.  A call that commits the state field and *)
(* whose onAfter, if the edge has one, fulfils invokes the global          *)
(* afterTransition hooks in the same way; when onAfter fails none of them  *)
(* is invoked.                                                             *)
(***************************************************************************)
C19_HooksInvokedAfterEdgeHook ==
  \A c \in DOMAIN calls :
    LET call == calls[c]
        tr == call.trace
    IN /\ (/\ call.pc \notin {"free", "onBefore"}
           /\ DeclaredEdge(call)
           /\ ~Failure(tr, {"onBeforeSettled"}, AnyError))
          => StartedUpToThrow(tr, "beforeTransition", config.globalHooks.beforeTransition)
       /\ Failure(tr, {"onBeforeSettled"}, AnyError) => ~Invoked(tr, "beforeTransition")
       /\ (/\ Invoked(tr, "write")
           /\ call.pc # "onAfter"
           /\ ~Failure(tr, {"onAfterSettled"}, AnyError))
          => StartedUpToThrow(tr, "afterTransition", config.globalHooks.afterTransition)
       /\ Failure(tr, {"onAfterSettled"}, AnyError) => ~Invoked(tr, "afterTransition")

C19_Witness ==
  \E c \in DOMAIN calls :
    /\ Finished(c)
    /\ DeclaredEdge(calls[c])
    /\ Count(calls[c].trace, "beforeTransition") = MaxHooks
    /\ Invoked(calls[c].trace, "write")
    /\ Failure(calls[c].trace, {"onAfterSettled"}, AnyError)
    /\ config.globalHooks.afterTransition > 0
    /\ ~Invoked(calls[c].trace, "afterTransition")

(***************************************************************************)
(* C20: after an honoured abort (abortable edge, the abort signal raised   *)
(* in the before-phase), the caller's entity is restored exactly to the    *)
(* snapshot: every field of the entity equals the value it had when        *)
(* transition was called, also a field a before-hook changed before        *)
(* raising the abort.                                                      *)
(***************************************************************************)
C20_RestoredToSnapshot ==
  \A c \in DOMAIN calls :
    (/\ Finished(c)
     /\ HonoredAbort(calls[c])
     /\ ~Invoked(calls[c].trace, "write"))
    => entities[calls[c].entity] = calls[c].entitySnapshot

(***************************************************************************)
(* C21: transition calls running concurrently on different entities        *)
(* through one engine do not interfere: under every interleaving the state *)
(* field of an entity is written by its own call only, an entity whose     *)
(* call succeeds ends in the state that call requested, each committed     *)
(* call whose hooks fulfil produces exactly one global afterTransition     *)
(* invocation (one hook registered), and the payload of every global hook  *)
(* invocation carries the from, to and context meta of its own call.       *)
(***************************************************************************)
Succeeded(call) ==
  call.pc = "done" /\ call.result = "resolved" /\ call.error = NoError

C21_NoInterference ==
  \A c \in DOMAIN calls :
    LET call == calls[c]
        tr == call.trace
    IN call.pc # "free" =>
         /\ \A i \in Positions(tr, {"beforeTransition", "afterTransition"}) :
              /\ tr[i].from = call.currentState
              /\ tr[i].to = call.nextState
              /\ tr[i].meta = call.context.meta
              /\ tr[i].actor = call.context.actor
         /\ call.currentState = call.entitySnapshot[config.stateKey]
         /\ StateField(c) = (IF Invoked(tr, "write") THEN call.nextState
                             ELSE call.currentState)
         /\ Count(tr, "afterTransition") <= config.globalHooks.afterTransition
         /\ Succeeded(call) =>
              /\ StateField(c) = call.nextState
              /\ Count(tr, "afterTransition") = config.globalHooks.afterTransition

C21_Witness ==
  \E c, d \in DOMAIN calls :
    /\ calls[c].entity # calls[d].entity
    /\ calls[c].nextState # calls[d].nextState
    /\ calls[c].context.meta # calls[d].context.meta
    /\ Succeeded(calls[c])
    /\ Count(calls[c].trace, "afterTransition") = 1
    /\ calls[d].pc = "afterHooks"
    /\ HookPending(calls[d])
    /\ StateField(c) = calls[c].nextState
    /\ StateField(d) = calls[d].nextState

(***************************************************************************)
(* C22: for a sequence of transition calls made one after another on one   *)
(* entity, each along a declared edge with succeeding hooks, every global  *)
(* beforeTransition and afterTransition hook receives exactly one payload  *)
(* per call, in call order, where each payload's from is the previous      *)
(* call's to (the first from being the starting state), and the final      *)
(* state field equals the last requested target.                           *)
(***************************************************************************)
\* the calls 1..n were each made along a declared edge and succeeded
SequenceSucceeded(n) ==
  \A c \in 1..n : Succeeded(calls[c]) /\ DeclaredEdge(calls[c])

\* the state the entity was in before call c
StateBefore(c) ==
  IF c = 1 THEN calls[1].entitySnapshot[config.stateKey] ELSE calls[c - 1].nextState

\* hook i of `name` received exactly one payload in call c, from -> to
OnePayload(c, name, i, from, to) ==
  LET tr == calls[c].trace
      got == {k \in Positions(tr, {name}) : tr[k].idx = i}
  IN /\ Cardinality(got) = 1
     /\ \A k \in got : tr[k].from = from /\ tr[k].to = to

C22_PayloadsChain ==
  SequenceSucceeded(ncalls) =>
    /\ \A c \in 1..ncalls :
         /\ \A i \in 1..config.globalHooks.beforeTransition :
              OnePayload(c, "beforeTransition", i, StateBefore(c), calls[c].nextState)
         /\ \A i \in 1..config.globalHooks.afterTransition :
              OnePayload(c, "afterTransition", i, StateBefore(c), calls[c].nextState)
    /\ ncalls > 0 => entities[1][config.stateKey] = calls[ncalls].nextState

C22_Witness ==
  /\ ncalls = MaxCalls
  /\ SequenceSucceeded(ncalls)
  /\ \A c \in 1..ncalls : calls[c].currentState # calls[c].nextState
  /\ OnePayload(ncalls, "afterTransition", 1, calls[ncalls - 1].nextState,
                calls[ncalls].nextState)

(***************************************************************************)
(* C23: construction installs a default onAbort on exactly the edges that  *)
(* are abortable and have no onAbort, and leaves every other edge's        *)
(* onAbort as configured: a caller-supplied onAbort is never replaced, a   *)
(* non-abortable edge without onAbort gets none; no transition call        *)
(* changes that.  On an honoured abort of an edge with the default the     *)
(* default handler runs and logs a line naming the edge's from and to      *)
(* states.                                                                 *)
(***************************************************************************)
\* the table the engine was constructed from
Configured(table) ==
  /\ DOMAIN table = DOMAIN config.transitions
  /\ \A tK \in DOMAIN table :
       /\ DOMAIN table[tK] = DOMAIN config.transitions[tK]
       /\ \A nS \in DOMAIN table[tK] :
            LET given == table[tK][nS]
                kept == config.transitions[tK][nS]
            IN /\ kept.isAbortable = given.isAbortable
               /\ kept.onBefore = given.onBefore
               /\ kept.onAfter = given.onAfter
               /\ kept.onAbort = "default" <=> given.isAbortable /\ given.onAbort = "none"
               /\ kept.onAbort # "default" => kept.onAbort = given.onAbort

\* the default handler ran at position i: its log line follows, naming the edge
DefaultHandlerLogged(call, i) ==
  /\ i < Len(call.trace)
  /\ call.trace[i + 1].name = "console.log"
  /\ call.trace[i + 1].message = "Aborting transition from"
  /\ call.trace[i + 1].from = call.currentState
  /\ call.trace[i + 1].to = call.nextState

C23_DefaultOnAbort ==
  /\ \E table \in Tables : Configured(table)
  /\ \A c \in DOMAIN calls :
       LET call == calls[c]
           P(name) == Positions(call.trace, {name})
       IN Finished(c) =>
            /\ HonoredAbort(call) /\ call.nextTransition.onAbort = "default" =>
                 /\ Count(call.trace, "onAbort") = 1
                 /\ \A i \in P("onAbort") : DefaultHandlerLogged(call, i)
            /\ call.nextTransition.onAbort # "default" =>
                 \A i \in P("console.log") :
                   call.trace[i].message # "Aborting transition from"

C23_Witness ==
  \E c \in DOMAIN calls :
    /\ Finished(c)
    /\ ncalls = MaxCalls
    /\ HonoredAbort(calls[c])
    /\ calls[c].nextTransition.onAbort = "default"
    /\ \E i \in Positions(calls[c].trace, {"onAbort"}) : DefaultHandlerLogged(calls[c], i)
    /\ \E tK \in DOMAIN config.transitions : \E nS \in DOMAIN config.transitions[tK] :
         config.transitions[tK][nS].onAbort = "custom"

(***************************************************************************)
(* C24: the engine itself reads and writes exactly one field of the        *)
(* entity, the field named by stateKey ("status" when stateKey is          *)
(* omitted).  With a custom stateKey, validation uses that field (the      *)
(* state a call validates against is the value of that field when the call *)
(* is made), the commit writes that field and is the only step that        *)
(* changes it, abort handling included, and no step of the engine writes   *)
(* any other field: another field changes only where onBefore or onAfter,  *)
(* which are handed the entity, settle.                                    *)
(***************************************************************************)
StateKeyOnly ==
  \A c \in DOMAIN calls :
    LET e == calls'[c].entity
        hookStep == calls[c].pc \in {"onBefore", "onAfter"}
        commitStep == calls[c].pc = "beforeHooks"
                        /\ Count(calls'[c].trace, "write") > Count(calls[c].trace, "write")
        callStep == calls[c].pc \in {"free", "done"} /\ calls'[c].pc # calls[c].pc
    IN calls'[c] # calls[c] =>
         /\ callStep /\ calls'[c].thrown = NoError =>
              calls'[c].currentState = entities[e][config.stateKey]
         /\ commitStep =>
              entities' = [entities EXCEPT ![e][config.stateKey] = calls[c].nextState]
         /\ ~commitStep => entities'[e][config.stateKey] = entities[e][config.stateKey]
         /\ ~hookStep =>
              \A f \in Fields \ {config.stateKey} : entities'[e][f] = entities[e][f]

C24_OnlyStateKeyField == [][StateKeyOnly]_vars

C24_Witness ==
  \E c \in DOMAIN calls :
    /\ config.stateKey = "phase"
    /\ Finished(c)
    /\ ncalls = MaxCalls
    /\ Succeeded(calls[c])
    /\ calls[c].currentState # calls[c].nextState
    /\ entities[1].phase = calls[c].nextState
    /\ entities[1].status # entities[1].phase
    /\ entities[1].status # calls[c].currentState

(***************************************************************************)
(* C25: two engines constructed from the same configuration and driven     *)
(* with the same transition call on structurally identical entities, whose *)
(* hooks and handlers behave alike in both runs, end with identical entity *)
(* states and produce identical sequences of hook invocations (same hooks, *)
(* same order, same payloads); constructing the second engine from the     *)
(* configuration the first one normalized changes nothing.                 *)
(***************************************************************************)
\* what the hooks and handlers of a call did: the settlements, in order
Settlements(trace) ==
  SelectSeq(trace, LAMBDA ev : ev.name \in BeforeSettled \cup AfterSettled
                                              \cup {"onAbortSettled"})

\* what the engine invoked in a call, in order
Invocations(trace) ==
  SelectSeq(trace, LAMBDA ev : ev.name \notin BeforeSettled \cup AfterSettled
                                                 \cup {"onAbortSettled"})

\* the handler that threw out of the catch block: the last one invoked
Thrower(call) ==
  IF call.thrown = HandlerError
  THEN Invocations(call.trace)[Len(Invocations(call.trace))].name
  ELSE "<none>"

\* the same call, made on entities that were alike, with hooks that behaved alike
SameRun(c, d) ==
  /\ Finished(c) /\ Finished(d)
  /\ calls[c].entitySnapshot = calls[d].entitySnapshot
  /\ calls[c].nextState = calls[d].nextState
  /\ calls[c].context = calls[d].context
  /\ Settlements(calls[c].trace) = Settlements(calls[d].trace)
  /\ calls[c].thrown = calls[d].thrown
  /\ Thrower(calls[c]) = Thrower(calls[d])
  /\ calls[c].onAbort = calls[d].onAbort
  /\ entities[calls[c].entity].paid = entities[calls[d].entity].paid

BeforePhase == {"onBefore", "beforeTransition"} \cup BeforeSettled
PostPhase == {"onAfter", "afterTransition"} \cup AfterSettled

C26_WriteOnceBetweenPhases ==
  \A c \in DOMAIN calls :
    LET call == calls[c]
        tr == call.trace
    IN call.pc # "free" =>
         /\ Count(tr, "write") <= 1
         /\ \A w \in Positions(tr, {"write"}) :
              /\ \A i \in Positions(tr, BeforePhase) : i < w
              /\ \A j \in Positions(tr, PostPhase) : w < j
              /\ \A i \in Positions(tr, {"onBefore", "beforeTransition"}) :
                   \E k \in Positions(tr, BeforeSettled) :
                     /\ i < k /\ k < w
                     /\ tr[k].name = tr[i].name \o "Settled"
                     /\ tr[k].idx = tr[i].idx
                     /\ tr[k].error = NoError
              /\ call.nextTransition.onBefore => Invoked(tr, "onBefore")
              /\ Count(tr, "beforeTransition") = config.globalHooks.beforeTransition
         /\ (\/ call.error.type = "InvalidTransition"
             \/ Failure(tr, BeforeSettled, AnyError))
              => /\ ~Invoked(tr, "write")
                 /\ StateField(c) = call.currentState
         /\ ~Invoked(tr, "write") => StateField(c) = call.currentState

C26_Witness ==
  \E c \in DOMAIN calls :
    /\ Finished(c)
    /\ calls[c].currentState # calls[c].nextState
    /\ Count(calls[c].trace, "write") = 1
    /\ Count(calls[c].trace, "onBefore") = 1
    /\ Count(calls[c].trace, "beforeTransition") = MaxHooks
    /\ Failure(calls[c].trace, AfterSettled, AnyError)
    /\ StateField(c) = calls[c].nextState

(***************************************************************************)
(* C27: if every hook invoked by a transition call eventually settles, the *)
(* call eventually completes; and a call whose hook never settles never    *)
(* completes and never commits or reports anything further: a call goes    *)
(* past a fan-out, and completes, only when no hook it started is still    *)
(* unsettled.                                                              *)
(***************************************************************************)
Completes(c) == (calls[c].pc # "free") ~> (calls[c].pc = "done")

StalledWhileHookPending ==
  \A c \in DOMAIN calls :
    HookPending(calls[c]) /\ calls[c].pc # "free" =>
      /\ calls[c].pc = (IF calls[c].phase = "before" THEN "beforeHooks" ELSE "afterHooks")
      /\ ~Finished(c)

C27_CompletesIffHooksSettle ==
  /\ Completes(1)
  /\ []StalledWhileHookPending

(***************************************************************************)
(* C28: two transition calls in flight at once on the same entity are not  *)
(* serialized: each validates against the state S it read when it was      *)
(* called, each call that passes its before-phase commits its own target   *)
(* whatever the field holds by then, so the field ends at the target of    *)
(* the call that commits last, and it can thereby pass from one target T1  *)
(* to another target T2 although T1 -> T2 is not a declared edge.          *)
(***************************************************************************)
\* the step is the commit of call c
Commits(c) == Count(calls'[c].trace, "write") > Count(calls[c].trace, "write")

\* the step is the start of call c
Starts(c) == calls[c].pc = "free" /\ calls'[c].pc # "free"

NotSerialized ==
  \A c \in DOMAIN calls :
    /\ Starts(c) =>
         /\ calls'[c].currentState = entities[calls'[c].entity][config.stateKey]
         /\ calls'[c].error.type = "InvalidTransition"
              <=> ~In(calls'[c].nextState,
                      AllowedNextStates(config.transitions, calls'[c].currentState))
    /\ Commits(c) =>
         /\ entities'[calls[c].entity][config.stateKey] = calls[c].nextState
         /\ calls'[c].error = NoError
    /\ (calls[c].pc = "beforeHooks" /\ calls'[c].pc \in {"onAfter", "afterHooks"})
         => Commits(c)

C28_NotSerialized == [][NotSerialized]_vars

\* both calls read S, call c committed T1, call d then committed T2, and
\* T1 -> T2 is not an edge of the table
C28_Witness ==
  \E c, d \in DOMAIN calls :
    /\ c # d
    /\ calls[c].entitySnapshot = calls[d].entitySnapshot
    /\ calls[c].currentState = calls[d].currentState
    /\ Invoked(calls[c].trace, "write")
    /\ Invoked(calls[d].trace, "write")
    /\ calls[c].nextState # calls[d].nextState
    /\ StateField(d) = calls[d].nextState
    /\ calls[c].nextState \in DOMAIN config.transitions
    /\ calls[d].nextState \notin DOMAIN config.transitions[calls[c].nextState]
    /\ Finished(c) /\ Finished(d)
    /\ Succeeded(calls[c]) /\ Succeeded(calls[d])

(***************************************************************************)
(* C29 (as stated): hook invocation is the only suspension point of a      *)
(* transition call: a call on an edge with no onBefore/onAfter, through an *)
(* engine with no global hooks, runs from its read of the current state to *)
(* its write of the target without any step of another transition call     *)
(* interleaving.                                                           *)
(***************************************************************************)
NoHooks ==
  config.globalHooks.beforeTransition = 0 /\ config.globalHooks.afterTransition = 0

\* the call is on a declared edge with no onBefore and no onAfter
BareEdge(call) ==
  /\ DeclaredEdge(call)
  /\ ~call.nextTransition.onBefore
  /\ ~call.nextTransition.onAfter

\* call c has read the current state and has not yet written the target
BetweenReadAndWrite(c) ==
  /\ calls[c].pc \notin {"free", "catch", "done"}
  /\ ~Invoked(calls[c].trace, "write")

C29_NoInterleavingWithoutHooks ==
  [][\A c \in DOMAIN calls :
       NoHooks /\ BareEdge(calls[c]) /\ BetweenReadAndWrite(c)
         => \A d \in DOMAIN calls \ {c} : calls'[d] = calls[d]]_vars

(***************************************************************************)
(* C29 (amended): every await of a transition call is a suspension point,  *)
(* also where there is no hook to invoke.  A call on an edge with no       *)
(* onBefore/onAfter, through an engine with no global hooks, reads the     *)
(* current state and validates in one run, is then suspended (at the await *)
(* of the empty Promise.all) without having written, and writes the target *)
(* in its next run, with no hook step of its own in between; steps of      *)
(* another transition call can interleave while it is suspended.           *)
(***************************************************************************)
C29_SuspendsWithoutHooks ==
  [][\A c \in DOMAIN calls :
       (NoHooks /\ BareEdge(calls'[c])) =>
         /\ Starts(c) =>
              /\ BetweenReadAndWrite(c)'
              /\ calls'[c].pc = "beforeHooks"
              /\ calls'[c].trace = <<>>
              /\ entities' = entities
         /\ (BetweenReadAndWrite(c) /\ calls'[c] # calls[c]) =>
              /\ Commits(c)
              /\ calls'[c].pc = "afterHooks"
              /\ entities'[calls[c].entity][config.stateKey] = calls[c].nextState]_vars

\* a bare call is suspended between its read and its write, and the other
\* call has committed since the read
C29_Witness ==
  \E c, d \in DOMAIN calls :
    /\ c # d
    /\ NoHooks
    /\ BareEdge(calls[c])
    /\ BetweenReadAndWrite(c)
    /\ calls[d].currentState = calls[c].currentState
    /\ Invoked(calls[d].trace, "write")
    /\ StateField(c) = calls[d].nextState
    /\ calls[d].nextState # calls[c].currentState

(***************************************************************************)
(* C30: under every interleaving of transition calls the from and to of    *)
(* every payload handed to a global beforeTransition or afterTransition    *)
(* hook form a declared edge of the transition table, where from is the    *)
(* state the call read when it was invoked.                                *)
(***************************************************************************)
C30_PayloadIsDeclaredEdge ==
  \A c \in DOMAIN calls :
    \A i \in Positions(calls[c].trace, {"beforeTransition", "afterTransition"}) :
      LET payload == calls[c].trace[i]
      IN /\ payload.from = calls[c].entitySnapshot[config.stateKey]
         /\ payload.from \in DOMAIN config.transitions
         /\ payload.to \in DOMAIN config.transitions[payload.from]

(***************************************************************************)
(* Hooks that write the state field.  onBefore and onAfter are handed the  *)
(* entity, and a global hook is a closure that may hold it: while such a   *)
(* hook is running, one of its own runs may assign entity[stateKey].  One  *)
(* entity, and two transition calls on it that may be in flight together.  *)
(***************************************************************************)
HookRunning(call) ==
  \/ call.pc \in {"onBefore", "onAfter"}
  \/ \E i \in DOMAIN call.hooks : call.hooks[i] = "pending"

HookWritesState(c, value) ==
  /\ HookRunning(calls[c])
  /\ entities' = ApplyWrite(entities, calls[c].entity,
                            [field |-> config.stateKey, value |-> value])
  /\ UNCHANGED <<config, calls, ncalls>>

HookWrite ==
  \E c \in DOMAIN calls, value \in StateNames : HookWritesState(c, value)

InitWrites ==
  InitWith({TableB}, {GlobalHooks(0, 0, FALSE, FALSE), GlobalHooks(1, 1, TRUE, TRUE)},
           {NoKey}, {1, 2}, {1})

NextWrites ==
  \/ TransitionRace
  \/ OnBefore
  \/ GlobalHook
  \/ HookWrite
  \/ PreTransitionRejected
  \/ PreTransitionFulfilled
  \/ OnAfter
  \/ PostTransitionRejected
  \/ PostTransitionFulfilled
  \/ Caught
  \/ OnAbort

SpecWrites == InitWrites /\ [][NextWrites]_vars

ConsistencyError == GenericError("Transition failed or had incongurencies")

(***************************************************************************)
(* C31: the consistency check of postTransition (the state field equals    *)
(* the target, else a generic consistency error) fails in no reachable     *)
(* execution: neither when a before-hook wrote the state field nor when    *)
(* another transition call on the same entity is in flight, because the    *)
(* check runs in the same run as the commit.                               *)
(***************************************************************************)
C31_ConsistencyCheckNeverFails ==
  \A c \in DOMAIN calls :
    /\ calls[c].error # ConsistencyError
    /\ \A i \in 1..Len(calls[c].trace) : calls[c].trace[i].error # ConsistencyError

\* no global hook is registered, the edge of call c has no onAfter and the
\* one of call d no onBefore, so onBefore of c is the only hook that ran;
\* d read a state that neither call wrote, so that hook had written the
\* field; c passed the check all the same, with d in flight
C31_Witness ==
  \E c, d \in DOMAIN calls :
    /\ c # d
    /\ NoHooks
    /\ calls[c].nextTransition.onBefore /\ ~calls[c].nextTransition.onAfter
    /\ calls[c].pc = "afterHooks"
    /\ Invoked(calls[c].trace, "write")
    /\ InProgress(d)
    /\ calls[d].entity = calls[c].entity
    /\ calls[d].currentState \notin {calls[c].currentState, calls[c].nextState}
    /\ ~calls[d].nextTransition.onBefore
    /\ ~Invoked(calls[d].trace, "write")
    /\ StateField(c) = calls[c].nextState

(***************************************************************************)
(* C32: the engine guards against hooks that write the state field:        *)
(* whenever a transition call on a declared edge S -> T completes without  *)
(* a failure, so without invoking the onError that is configured, the      *)
(* state field equals T, whatever the hooks did, an onBefore, onAfter or   *)
(* global hook that wrote the state field during the call included.  No    *)
(* other call is made on the entity.                                       *)
(***************************************************************************)
C32_GuardedAgainstHookWrites ==
  \A c \in DOMAIN calls :
    (/\ Finished(c)
     /\ DeclaredEdge(calls[c])
     /\ config.globalHooks.onError
     /\ calls[c].error = NoError
     /\ ~Invoked(calls[c].trace, "onError")
     /\ \A d \in DOMAIN calls \ {c} : calls[d].pc = "free")
    => StateField(c) = calls[c].nextState

\* a global beforeTransition hook failed with the abort signal, and that
\* failure is the one the call caught
GlobalBeforeAborted(call) ==
  /\ Failure(call.trace, {"beforeTransitionSettled"}, {"AbortTransition"})
  /\ call.error.type = "AbortTransition"

(***************************************************************************)
(* C33: an AbortTransition signal raised by a global beforeTransition hook *)
(* (not by onBefore) on an abortable edge is honoured like an abort of     *)
(* onBefore: the state field is not written, onAbort of the edge is        *)
(* invoked once, onAfter and the global afterTransition hooks are not      *)
(* invoked, and onError is invoked once.                                   *)
(***************************************************************************)
C33_GlobalHookAbortHonored ==
  \A c \in DOMAIN calls :
    (/\ Finished(c)
     /\ DeclaredEdge(calls[c])
     /\ calls[c].nextTransition.isAbortable
     /\ GlobalBeforeAborted(calls[c])
     /\ config.globalHooks.onError)
    => /\ ~Invoked(calls[c].trace, "write")
       /\ StateField(c) = calls[c].currentState
       /\ Count(calls[c].trace, "onAbort") = 1
       /\ Positions(calls[c].trace, {"onAfter", "afterTransition"}) = {}
       /\ Count(calls[c].trace, "onError") = 1

\* the failures of the global beforeTransition hooks, in the order in
\* which the hooks rejected
BeforeRejections(trace) ==
  {i \in Positions(trace, {"beforeTransitionSettled"}) : trace[i].error # NoError}

FirstRejection(trace) ==
  trace[CHOOSE i \in BeforeRejections(trace) :
          \A j \in BeforeRejections(trace) : i <= j].error

(***************************************************************************)
(* C34: when a global beforeTransition hook rejects asynchronously (no     *)
(* hook throws while it is being called), every other registered global    *)
(* beforeTransition hook is invoked all the same, the first rejection is   *)
(* the error delivered to onError, exactly once also when several hooks    *)
(* reject, and the state field is not written.                             *)
(***************************************************************************)
C34_FirstRejectionReportedOnce ==
  \A c \in DOMAIN calls :
    LET tr == calls[c].trace
    IN (/\ Finished(c)
        /\ config.globalHooks.onError
        /\ BeforeRejections(tr) # {}
        /\ ~ThrewSynchronously(tr, "beforeTransition"))
       => /\ Count(tr, "beforeTransition") = config.globalHooks.beforeTransition
          /\ calls[c].error = FirstRejection(tr)
          /\ Count(tr, "onError") = 1
          /\ ErrorReported(calls[c])
          /\ ~Invoked(tr, "write")
          /\ StateField(c) = calls[c].currentState

(***************************************************************************)
(* C35: when transition is called on an entity whose current state is not  *)
(* a key of the transition table (for example after a committed transition *)
(* into a dangling target), the lookup is unguarded: the call fails before *)
(* the failure boundary is entered, so the state field is unchanged and no *)
(* hook or handler at all is invoked, onInvalidTransition and onError      *)
(* included.                                                               *)
(***************************************************************************)
C35_UnknownStateFailsBeforeBoundary ==
  \A c \in DOMAIN calls :
    (calls[c].pc # "free" /\ calls[c].currentState \notin TableKeys)
    => /\ calls[c].pc = "done"
       /\ calls[c].result = "rejected"
       /\ calls[c].thrown = TypeError
       /\ calls[c].trace = <<>>
       /\ StateField(c) = calls[c].currentState

\* the call logged the notice of line 123
SkippedNoticeLogged(call) ==
  \E i \in Positions(call.trace, {"console.log"}) :
    call.trace[i].message = "Abort Transition triggered but skipped over transition"

(***************************************************************************)
(* C36: a transition call logs the notice that an abort was requested but  *)
(* skipped if and only if an AbortTransition signal was raised against a   *)
(* non-abortable edge; it logs no such notice for an invalid target, for a *)
(* generic hook error, for an honoured abort, or for a successful          *)
(* transition.                                                             *)
(***************************************************************************)
C36_NoticeIffAbortOnNonAbortableEdge ==
  \A c \in DOMAIN calls :
    Finished(c) =>
      (SkippedNoticeLogged(calls[c])
         <=> (calls[c].error.type = "AbortTransition"
                /\ ~calls[c].nextTransition.isAbortable))

(***************************************************************************)
(* C37: the payload passed to every global beforeTransition and            *)
(* afterTransition hook carries from = the state read at call start, to =  *)
(* the requested target, actor = context.actor and meta = context.meta of  *)
(* that same call; when transition is called with no context the absence   *)
(* makes nothing fail: the hooks are invoked, with actor and meta absent,  *)
(* and when they fulfil the transition commits.                            *)
(***************************************************************************)
C37_PayloadOfGlobalHooks ==
  \A c \in DOMAIN calls :
    LET call == calls[c]
        tr == call.trace
    IN call.pc # "free" =>
         /\ call.currentState = call.entitySnapshot[config.stateKey]
              \/ ~Defined(config.transitions, call.currentState)
         /\ \A i \in Positions(tr, {"beforeTransition", "afterTransition"}) :
              /\ tr[i].from = call.currentState
              /\ tr[i].to = call.nextState
              /\ tr[i].actor = call.context.actor
              /\ tr[i].meta = call.context.meta
         /\ call.context = NoCtx =>
              /\ call.error # TypeError
              /\ (DeclaredEdge(call) /\ call.pc \notin {"onBefore", "catch"}
                    /\ ~Failure(tr, {"onBeforeSettled"}, AnyError))
                 => StartedUpToThrow(tr, "beforeTransition",
                                     config.globalHooks.beforeTransition)
              /\ (DeclaredEdge(call) /\ call.pc \in {"onAfter", "afterHooks"})
                 => Invoked(tr, "write") /\ StateField(c) = call.nextState
              /\ Succeeded(call) /\ DeclaredEdge(call) =>
                   /\ Invoked(tr, "write")
                   /\ StateField(c) = call.nextState

C37_Witness ==
  \E c \in DOMAIN calls :
    /\ calls[c].context = NoCtx
    /\ Succeeded(calls[c])
    /\ DeclaredEdge(calls[c])
    /\ calls[c].currentState # calls[c].nextState
    /\ Count(calls[c].trace, "beforeTransition") = MaxHooks
    /\ Count(calls[c].trace, "afterTransition") = 1
    /\ \A i \in Positions(calls[c].trace, {"beforeTransition", "afterTransition"}) :
         calls[c].trace[i].actor = "<none>" /\ calls[c].trace[i].meta = "<none>"
    /\ StateField(c) = calls[c].nextState

====
